---------------------------- MODULE Spec2Model ----------------------------
(***************************************************************************)
(* Stop-and-wait ping exchange of usrp-legacy/iqpr/ping.cc.                *)
(*                                                                         *)
(* One process runs main() either as master (sends DATA frames, waits for  *)
(* the matching ACK, retries) or as slave (receives DATA frames, answers   *)
(* each accepted one with an ACK).  The packet radio (iqpr_txpacket,       *)
(* iqpr_rxpacket) is the environment: what iqpr_rxpacket returns is an     *)
(* input chosen freely at every poll.                                      *)
(***************************************************************************)
EXTENDS Integers, Naturals, Sequences, FiniteSets, TLC

---------------------------------------------------------------------------
(* Program constants *)

PING_NODE_MASTER == 0
PING_NODE_SLAVE == 1
PING_PACKET_DATA == 59
PING_PACKET_ACK == 77

\* unsigned int timespec = 1000 : the poll quantum handed to iqpr_rxpacket
timespec == 1000
\* unsigned char ack_payload[10]; iqpr_txpacket(q, tx_header, ack_payload, 10, ..)
ACK_PAYLOAD_LEN == 10
\* unsigned int max_num_attempts = 500 (option -A left out)
DefaultMaxAttempts == 500
\* unsigned int tx_payload_len = 200 (option -n left out)
DefaultPayloadLen == 200
\* unsigned int ack_timeout = 240000 : time before re-transmission [us]
DefaultAckTimeout == 240000

---------------------------------------------------------------------------
(* Bounds of the model.  The unsigned counters num_attempts, timer and     *)
(* tx_pid stay far below 2^32 within these bounds, so they do not wrap.   *)

\* option -N : num_packets ranges over 0..MaxPackets
MaxPackets == 3
\* option -A : max_num_attempts ranges over 0..MaxAttempts and the default
MaxAttempts == 2
\* ack_timeout ranges over 1..MaxAckPolls poll quanta, and one value that is
\* no multiple of the quantum (240 quanta in the source)
MaxAckPolls == 2
\* frames the radio returns to the slave in one run
MaxSlaveFrames == 2

\* transmissions of a master run with the default 500 attempts: every packet
\* once and one retry (keeps that run finite; the runs with max_num_attempts
\* in 0..MaxAttempts are not cut)
MaxSends == MaxPackets + 1

PacketCounts == 0..MaxPackets
AttemptLimits == (0..MaxAttempts) \cup {DefaultMaxAttempts}
PayloadLens == {1, DefaultPayloadLen}
AckTimeouts ==
    {k * timespec : k \in 1..MaxAckPolls}
        \cup {MaxAckPolls * timespec - timespec \div 2}
\* header bytes 0 and 1 of the frames the radio returns: the ids a run of at
\* most MaxPackets packets uses, and the same low bytes under a high byte 255
HiBytes == {0, 255}
LoBytes == 0..(MaxPackets - 1)
TypeBytes == {PING_PACKET_DATA, PING_PACKET_ACK}

\* payload length of a returned frame: an ACK carries 10 bytes, a DATA frame
\* what its sender was configured with
RxLen(type) == IF type = PING_PACKET_ACK THEN ACK_PAYLOAD_LEN ELSE DefaultPayloadLen

\* what iqpr_rxpacket hands back when it found a packet
RxFrames ==
    {[found |-> TRUE, hv |-> hv, h0 |-> h0, h1 |-> h1, h2 |-> h2, pv |-> pv,
      len |-> RxLen(h2)] :
        hv \in BOOLEAN, h0 \in HiBytes, h1 \in LoBytes, h2 \in TypeBytes,
        pv \in BOOLEAN}

\* iqpr_rxpacket returned 0: the out-parameters are not read by main()
NoFrame ==
    [found |-> FALSE, hv |-> FALSE, h0 |-> 0, h1 |-> 0,
     h2 |-> 0, pv |-> FALSE, len |-> 0]

\* the two header bytes of the packet id hold 2^16 values
IdModulus == 65536

\* packet counts that take the unsigned int counter tx_pid past the two id bytes
WidePacketCounts == {IdModulus + 1, IdModulus + 2}

\* frames whose id bytes include 0xff, as returned around the id wrap
WideBytes == {0, 1, 255}
WideFrames ==
    {[found |-> TRUE, hv |-> hv, h0 |-> h0, h1 |-> h1, h2 |-> h2, pv |-> pv,
      len |-> RxLen(h2)] :
        hv \in BOOLEAN, h0 \in WideBytes, h1 \in WideBytes, h2 \in TypeBytes,
        pv \in BOOLEAN}

\* a run of one node alone has no second node
NoPeer == <<>>

---------------------------------------------------------------------------
VARIABLES
    node_type,          \* PING_NODE_MASTER or PING_NODE_SLAVE
    num_packets,        \* option -N
    max_num_attempts,   \* option -A
    tx_payload_len,     \* option -n
    ack_timeout,        \* time before re-transmission [us]
    pc,                 \* position of main()
    tx_pid,             \* master: id of the outstanding packet
    tx_header,          \* bytes 0..2 of tx_header[8]
    num_attempts,
    ack_received,
    timer,              \* master: elapsed wait of the current attempt
    rx,                 \* result of the last iqpr_rxpacket call
    rx_pid,
    num_bytes_received,
    settled,            \* usleep(tx_sleep_timer) done, nothing sent since
    txlog,              \* history: frames handed to iqpr_txpacket
    accepted,           \* history: ids accepted (master: ACKs, slave: DATA)
    bailed,             \* "transmitter reached maximum number of attemts; bailing" printed
    firstPollAcks,      \* history: every poll so far returned the matching valid ACK
    rxcount,            \* history: frames returned to the slave
    polls,              \* history: iqpr_rxpacket calls of the master's current attempt
    peer                \* two-node runs: the state of the node that is not shown

vars ==
    <<node_type, num_packets, max_num_attempts, tx_payload_len, ack_timeout,
      pc, tx_pid, tx_header, num_attempts, ack_received, timer, rx, rx_pid,
      num_bytes_received, settled, txlog, accepted, bailed, firstPollAcks,
      rxcount, polls, peer>>

config == <<node_type, num_packets, max_num_attempts, tx_payload_len, ack_timeout>>

---------------------------------------------------------------------------
(* Frame codec *)

\* tx_header[0] = (tx_pid >> 8) & 0xff
HeaderHi(pid) == (pid \div 256) % 256

\* tx_header[1] = (tx_pid) & 0xff
HeaderLo(pid) == pid % 256

\* rx_pid = (rx_header[0] << 8) | rx_header[1]
DecodePid(h0, h1) == h0 * 256 + h1

\* mutant: the two id bytes written in the wrong order
DataHeader_Swapped(pid) ==
    [h0 |-> HeaderLo(pid), h1 |-> HeaderHi(pid), h2 |-> PING_PACKET_DATA]

\* master: header of the DATA frame for tx_pid (fill bytes 3..7 are random and never read)
DataHeader(pid) ==
    [h0 |-> HeaderHi(pid), h1 |-> HeaderLo(pid), h2 |-> PING_PACKET_DATA]

\* mutant: only the low id byte is copied into the ACK
AckHeader_LowByteOnly(f) ==
    [h0 |-> 0, h1 |-> f.h1, h2 |-> PING_PACKET_ACK]

\* slave: header of the ACK answering received frame f
AckHeader(f) ==
    [h0 |-> f.h0, h1 |-> f.h1, h2 |-> PING_PACKET_ACK]

\* mutant: the id of the ACK is not compared with tx_pid
MasterClassify_NoIdCheck(f, pid) ==
    IF ~f.hv THEN "HeaderError"
    ELSE IF f.h2 # PING_PACKET_ACK THEN "TypeMismatch"
    ELSE IF ~f.pv THEN "PayloadError"
    ELSE "Accepted"

\* mutant: rx_pid > tx_pid instead of rx_pid != tx_pid, an old ACK passes
MasterClassify_StaleIdOk(f, pid) ==
    IF ~f.hv THEN "HeaderError"
    ELSE IF f.h2 # PING_PACKET_ACK THEN "TypeMismatch"
    ELSE IF ~f.pv THEN "PayloadError"
    ELSE IF DecodePid(f.h0, f.h1) > pid THEN "IdMismatch"
    ELSE "Accepted"

\* master's if/else-if chain over a received packet
MasterClassify(f, pid) ==
    IF ~f.hv THEN "HeaderError"
    ELSE IF f.h2 # PING_PACKET_ACK THEN "TypeMismatch"
    ELSE IF ~f.pv THEN "PayloadError"
    ELSE IF DecodePid(f.h0, f.h1) # pid THEN "IdMismatch"
    ELSE "Accepted"

\* mutant: the payload check is missing
SlaveClassify_NoPayloadCheck(f) ==
    IF ~f.hv THEN "HeaderError"
    ELSE IF f.h2 # PING_PACKET_DATA THEN "TypeMismatch"
    ELSE "Accepted"

\* slave's checks over a received packet
SlaveClassify(f) ==
    IF ~f.hv THEN "HeaderError"
    ELSE IF f.h2 # PING_PACKET_DATA THEN "TypeMismatch"
    ELSE IF ~f.pv THEN "PayloadError"
    ELSE "Accepted"

\* mutant: <= instead of <, one poll too many
AwaitCond_Inclusive == ack_received = 0 /\ timer <= ack_timeout

\* while (!ack_received && timer < ack_timeout)
AwaitCond == ack_received = 0 /\ timer < ack_timeout

\* mutant: <= instead of <, one attempt too many
RetryCond_OffByOne == ack_received = 0 /\ num_attempts <= max_num_attempts

\* } while (!ack_received && (num_attempts < max_num_attempts));
RetryCond == ack_received = 0 /\ num_attempts < max_num_attempts

\* if (num_attempts == max_num_attempts)
BailCond == num_attempts = max_num_attempts

\* mutant: the terminal id is taken to be num_packets
SlaveLoopCond_OffByOne == rx_pid # num_packets

\* } while (rx_pid != num_packets-1);
\* unsigned arithmetic: with num_packets = 0 the right side is UINT_MAX, which
\* no rx_pid (at most 65535) equals
SlaveLoopCond == IF num_packets = 0 THEN TRUE ELSE rx_pid # num_packets - 1

---------------------------------------------------------------------------
\* the state after option parsing and iqpr_rx_start; the options marked
\* [master] in usage() keep their defaults on the slave, which never reads them
Init ==
    /\ node_type \in {PING_NODE_MASTER, PING_NODE_SLAVE}
    /\ num_packets \in PacketCounts
    /\ IF node_type = PING_NODE_MASTER
       THEN /\ max_num_attempts \in AttemptLimits
            /\ tx_payload_len \in PayloadLens
            /\ ack_timeout \in AckTimeouts
       ELSE /\ max_num_attempts = DefaultMaxAttempts
            /\ tx_payload_len = DefaultPayloadLen
            /\ ack_timeout = MaxAckPolls * timespec
    /\ pc = "start"
    /\ tx_pid = 0
    /\ tx_header = [h0 |-> 0, h1 |-> 0, h2 |-> 0]
    /\ num_attempts = 0
    /\ ack_received = 0
    /\ timer = 0
    /\ rx = NoFrame
    /\ rx_pid = 0
    /\ num_bytes_received = 0
    /\ settled = FALSE
    /\ txlog = <<>>
    /\ accepted = <<>>
    /\ bailed = FALSE
    /\ firstPollAcks = TRUE
    /\ rxcount = 0
    /\ polls = 0
    /\ peer = NoPeer

\* if (node_type == PING_NODE_MASTER) { for (tx_pid=0; ... } else { do { ...
Start ==
    /\ pc = "start"
    /\ pc' = IF node_type = PING_NODE_MASTER THEN "m_for" ELSE "s_poll"
    /\ tx_pid' = 0
    /\ UNCHANGED <<polls, peer, config, tx_header, num_attempts, ack_received, timer, rx,
                   rx_pid, num_bytes_received, settled, txlog, accepted,
                   bailed, firstPollAcks, rxcount>>

---------------------------------------------------------------------------
(* Master *)

\* for-loop test, header construction, reset of flags and counters
MasterFor ==
    /\ pc = "m_for"
    /\ IF tx_pid < num_packets
       THEN /\ tx_header' = DataHeader(tx_pid)
            /\ ack_received' = 0
            /\ num_attempts' = 0
            /\ pc' = "m_attempt"
       ELSE /\ pc' = "done"
            /\ UNCHANGED <<tx_header, ack_received, num_attempts>>
    /\ UNCHANGED <<polls, peer, config, tx_pid, timer, rx, rx_pid, num_bytes_received,
                   settled, txlog, accepted, bailed, firstPollAcks, rxcount>>

\* do { num_attempts++; printf("transmitting packet ..
MasterAttempt ==
    /\ pc = "m_attempt"
    /\ max_num_attempts > MaxAttempts => Len(txlog) < MaxSends
    /\ num_attempts' = num_attempts + 1
    /\ pc' = "m_sleep"
    /\ UNCHANGED <<polls, peer, config, tx_pid, tx_header, ack_received, timer, rx,
                   rx_pid, num_bytes_received, settled, txlog, accepted, bailed,
                   firstPollAcks, rxcount>>

\* mutant: only the first attempt of a packet waits for the hardware to settle
MasterSleep_FirstAttemptOnly ==
    /\ pc = "m_sleep"
    /\ settled' = (num_attempts = 1)
    /\ pc' = "m_tx"
    /\ UNCHANGED <<polls, peer, config, tx_pid, tx_header, num_attempts,
                   ack_received, timer, rx, rx_pid, num_bytes_received, txlog,
                   accepted, bailed, firstPollAcks, rxcount>>

\* usleep(tx_sleep_timer);
MasterSleep ==
    /\ pc = "m_sleep"
    /\ settled' = TRUE
    /\ pc' = "m_tx"
    /\ UNCHANGED <<polls, peer, config, tx_pid, tx_header, num_attempts,
                   ack_received, timer, rx, rx_pid, num_bytes_received, txlog,
                   accepted, bailed, firstPollAcks, rxcount>>

\* iqpr_txpacket(q, tx_header, tx_payload, tx_payload_len, &fgprops); timer=0; ack_received=0;
MasterTx ==
    /\ pc = "m_tx"
    /\ txlog' = Append(txlog, [h0 |-> tx_header.h0, h1 |-> tx_header.h1,
                               h2 |-> tx_header.h2, len |-> tx_payload_len])
    /\ settled' = FALSE
    /\ timer' = 0
    /\ ack_received' = 0
    /\ polls' = 0
    /\ pc' = "m_await"
    /\ UNCHANGED <<peer, config, tx_pid, tx_header, num_attempts, rx, rx_pid,
                   num_bytes_received, accepted, bailed, firstPollAcks, rxcount>>

\* mutant: the await loop never advances its timer
MasterPoll_NoTimer ==
    /\ pc = "m_await"
    /\ AwaitCond
    /\ \E f \in RxFrames \cup {NoFrame} :
        /\ rx' = f
        /\ IF f.found
           THEN /\ rx_pid' = DecodePid(f.h0, f.h1)
                /\ ack_received' =
                      IF MasterClassify(f, tx_pid) = "Accepted" THEN 1 ELSE ack_received
           ELSE UNCHANGED <<rx_pid, ack_received>>
        /\ firstPollAcks' =
              (firstPollAcks /\ f.found /\ MasterClassify(f, tx_pid) = "Accepted")
    /\ UNCHANGED <<polls, timer, peer, config, pc, tx_pid, tx_header, num_attempts,
                   num_bytes_received, settled, txlog, accepted, bailed, rxcount>>

\* one iteration of the await loop: poll, advance the timer, classify
MasterPollFrom(frames) ==
    /\ pc = "m_await"
    /\ AwaitCond
    /\ \E f \in frames \cup {NoFrame} :
        /\ rx' = f
        /\ timer' = timer + timespec
        /\ IF f.found
           THEN /\ rx_pid' = DecodePid(f.h0, f.h1)
                /\ ack_received' =
                      IF MasterClassify(f, tx_pid) = "Accepted" THEN 1 ELSE ack_received
           ELSE UNCHANGED <<rx_pid, ack_received>>
        /\ firstPollAcks' =
              (firstPollAcks /\ f.found /\ MasterClassify(f, tx_pid) = "Accepted")
    /\ polls' = polls + 1
    /\ UNCHANGED <<peer, config, pc, tx_pid, tx_header, num_attempts,
                   num_bytes_received, settled, txlog, accepted, bailed, rxcount>>

MasterPoll == MasterPollFrom(RxFrames)

\* mutant: the payload length is counted after every attempt, acknowledged or not
MasterAfterAwait_CountsEveryAttempt ==
    /\ pc = "m_await"
    /\ ~AwaitCond
    /\ num_bytes_received' = num_bytes_received + tx_payload_len
    /\ IF ack_received # 0
       THEN /\ accepted' = Append(accepted, tx_pid)
            /\ pc' = "m_bailcheck"
       ELSE /\ pc' = IF RetryCond THEN "m_attempt" ELSE "m_bailcheck"
            /\ UNCHANGED accepted
    /\ UNCHANGED <<polls, peer, config, tx_pid, tx_header, num_attempts, ack_received, timer,
                   rx, rx_pid, settled, txlog, bailed, firstPollAcks, rxcount>>

\* after the await loop: count the bytes and break, or retry, or leave the do-while
MasterAfterAwait ==
    /\ pc = "m_await"
    /\ ~AwaitCond
    /\ IF ack_received # 0
       THEN /\ num_bytes_received' = num_bytes_received + tx_payload_len
            /\ accepted' = Append(accepted, tx_pid)
            /\ pc' = "m_bailcheck"
       ELSE /\ pc' = IF RetryCond THEN "m_attempt" ELSE "m_bailcheck"
            /\ UNCHANGED <<num_bytes_received, accepted>>
    /\ UNCHANGED <<polls, peer, config, tx_pid, tx_header, num_attempts, ack_received, timer,
                   rx, rx_pid, settled, txlog, bailed, firstPollAcks, rxcount>>

\* if (num_attempts == max_num_attempts) { printf(..bailing); break; }  else tx_pid++
MasterBailCheck ==
    /\ pc = "m_bailcheck"
    /\ IF BailCond
       THEN /\ bailed' = TRUE
            /\ pc' = "done"
            /\ UNCHANGED tx_pid
       ELSE /\ tx_pid' = tx_pid + 1
            /\ pc' = "m_for"
            /\ UNCHANGED bailed
    /\ UNCHANGED <<polls, peer, config, tx_header, num_attempts, ack_received, timer, rx,
                   rx_pid, num_bytes_received, settled, txlog, accepted,
                   firstPollAcks, rxcount>>

---------------------------------------------------------------------------
(* Slave *)

\* inner do-while: one call of iqpr_rxpacket
SlavePoll ==
    /\ pc = "s_poll"
    /\ \E f \in RxFrames \cup {NoFrame} :
        /\ f.found => rxcount < MaxSlaveFrames
        /\ rx' = f
        /\ rxcount' = IF f.found THEN rxcount + 1 ELSE rxcount
        /\ pc' = IF f.found THEN "s_check" ELSE "s_poll"
    /\ UNCHANGED <<polls, peer, config, tx_pid, tx_header, num_attempts, ack_received, timer,
                   rx_pid, num_bytes_received, settled, txlog, accepted, bailed,
                   firstPollAcks>>

\* mutant: a repeated id is acknowledged again but its bytes are counted once
SlaveCheck_CountsDistinctIds ==
    /\ pc = "s_check"
    /\ LET c == SlaveClassify(rx) IN
        /\ rx_pid' = IF c \in {"HeaderError", "TypeMismatch"}
                     THEN rx_pid ELSE DecodePid(rx.h0, rx.h1)
        /\ IF c = "Accepted"
           THEN /\ num_bytes_received' =
                      IF \E i \in DOMAIN accepted : accepted[i] = DecodePid(rx.h0, rx.h1)
                      THEN num_bytes_received
                      ELSE num_bytes_received + rx.len
                /\ accepted' = Append(accepted, DecodePid(rx.h0, rx.h1))
                /\ tx_header' = AckHeader(rx)
                /\ pc' = "s_sleep"
           ELSE /\ pc' = "s_while"
                /\ UNCHANGED <<num_bytes_received, accepted, tx_header>>
    /\ UNCHANGED <<polls, peer, config, tx_pid, num_attempts, ack_received, timer,
                   rx, settled, txlog, bailed, firstPollAcks, rxcount>>

\* header, type and payload checks; byte count; ACK header
SlaveCheck ==
    /\ pc = "s_check"
    /\ LET c == SlaveClassify(rx) IN
        /\ rx_pid' = IF c \in {"HeaderError", "TypeMismatch"}
                     THEN rx_pid ELSE DecodePid(rx.h0, rx.h1)
        /\ IF c = "Accepted"
           THEN /\ num_bytes_received' = num_bytes_received + rx.len
                /\ accepted' = Append(accepted, DecodePid(rx.h0, rx.h1))
                /\ tx_header' = AckHeader(rx)
                /\ pc' = "s_sleep"
           ELSE /\ pc' = "s_while"
                /\ UNCHANGED <<num_bytes_received, accepted, tx_header>>
    /\ UNCHANGED <<polls, peer, config, tx_pid, num_attempts, ack_received, timer,
                   rx, settled, txlog, bailed, firstPollAcks, rxcount>>

\* usleep(tx_sleep_timer);
SlaveSleep ==
    /\ pc = "s_sleep"
    /\ settled' = TRUE
    /\ pc' = "s_tx"
    /\ UNCHANGED <<polls, peer, config, tx_pid, tx_header, num_attempts,
                   ack_received, timer, rx, rx_pid, num_bytes_received, txlog,
                   accepted, bailed, firstPollAcks, rxcount>>

\* iqpr_txpacket(q, tx_header, ack_payload, 10, &fgprops);
SlaveTx ==
    /\ pc = "s_tx"
    /\ txlog' = Append(txlog, [h0 |-> tx_header.h0, h1 |-> tx_header.h1,
                               h2 |-> tx_header.h2, len |-> ACK_PAYLOAD_LEN])
    /\ settled' = FALSE
    /\ pc' = "s_while"
    /\ UNCHANGED <<polls, peer, config, tx_pid, tx_header, num_attempts, ack_received, timer,
                   rx, rx_pid, num_bytes_received, accepted, bailed,
                   firstPollAcks, rxcount>>

\* } while (rx_pid != num_packets-1);   reached by fall-through and by continue
SlaveWhile ==
    /\ pc = "s_while"
    /\ pc' = IF SlaveLoopCond THEN "s_poll" ELSE "done"
    /\ UNCHANGED <<polls, peer, config, tx_pid, tx_header, num_attempts, ack_received, timer,
                   rx, rx_pid, num_bytes_received, settled, txlog, accepted,
                   bailed, firstPollAcks, rxcount>>

---------------------------------------------------------------------------
MasterNext ==
    \/ Start
    \/ MasterFor
    \/ MasterAttempt
    \/ MasterSleep
    \/ MasterTx
    \/ MasterPoll
    \/ MasterAfterAwait
    \/ MasterBailCheck

SlaveNext ==
    \/ Start
    \/ SlavePoll
    \/ SlaveCheck
    \/ SlaveSleep
    \/ SlaveTx
    \/ SlaveWhile

Next ==
    \/ MasterNext
    \/ SlaveNext

\* a run in either role
Spec == Init /\ [][Next]_vars

\* a run started with option -M
MasterInit == Init /\ node_type = PING_NODE_MASTER

MasterSpec == MasterInit /\ [][MasterNext]_vars

\* a run started with option -S (or neither)
SlaveInit == Init /\ node_type = PING_NODE_SLAVE

SlaveSpec == SlaveInit /\ [][SlaveNext]_vars

\* the runs whose transmissions the model does not cut: max_num_attempts in
\* 0..MaxAttempts, the default payload length
LiveInit ==
    /\ Init
    /\ \/ node_type = PING_NODE_SLAVE
       \/ /\ max_num_attempts <= MaxAttempts
          /\ num_packets + max_num_attempts <= MaxPackets + 1
    /\ tx_payload_len = DefaultPayloadLen

\* main() is one sequential thread: usleep and iqpr_txpacket return, and
\* iqpr_rxpacket returns within its quantum, so the master always takes its
\* next step.  The slave's progress depends on the radio: no fairness.
LiveSpec == LiveInit /\ [][Next]_vars /\ WF_vars(MasterNext)

---------------------------------------------------------------------------
(* One master and one slave process on a shared channel *)

\* the local state of the process whose steps are being taken
NodeState ==
    [node_type |-> node_type, num_packets |-> num_packets,
     max_num_attempts |-> max_num_attempts, tx_payload_len |-> tx_payload_len,
     ack_timeout |-> ack_timeout, pc |-> pc, tx_pid |-> tx_pid,
     tx_header |-> tx_header, num_attempts |-> num_attempts,
     ack_received |-> ack_received, timer |-> timer, rx |-> rx, rx_pid |-> rx_pid,
     num_bytes_received |-> num_bytes_received, settled |-> settled,
     txlog |-> txlog, accepted |-> accepted, bailed |-> bailed,
     firstPollAcks |-> firstPollAcks, rxcount |-> rxcount, polls |-> polls]

\* the slave process before its first step
SlaveStart(n) ==
    [node_type |-> PING_NODE_SLAVE, num_packets |-> n,
     max_num_attempts |-> DefaultMaxAttempts, tx_payload_len |-> DefaultPayloadLen,
     ack_timeout |-> MaxAckPolls * timespec, pc |-> "start", tx_pid |-> 0,
     tx_header |-> [h0 |-> 0, h1 |-> 0, h2 |-> 0], num_attempts |-> 0,
     ack_received |-> 0, timer |-> 0, rx |-> NoFrame, rx_pid |-> 0,
     num_bytes_received |-> 0, settled |-> FALSE,
     txlog |-> <<>>, accepted |-> <<>>, bailed |-> FALSE,
     firstPollAcks |-> TRUE, rxcount |-> 0, polls |-> 0]

\* both processes started with the same -N; the master's steps are taken first
PairInit ==
    /\ Init
    /\ node_type = PING_NODE_MASTER
    /\ num_packets \in 1..MaxSlaveFrames
    /\ max_num_attempts <= MaxAttempts
    /\ tx_payload_len = DefaultPayloadLen
    /\ ack_timeout = timespec

\* the other process is given a peer
PairStart ==
    /\ pc = "start"
    /\ peer = NoPeer
    /\ peer' = SlaveStart(num_packets)
    /\ UNCHANGED <<config, pc, tx_pid, tx_header, num_attempts, ack_received, timer,
                   rx, rx_pid, num_bytes_received, settled, txlog, accepted, bailed,
                   firstPollAcks, rxcount, polls>>

\* the two processes run at their own pace: the steps of the other one follow
Switch ==
    /\ peer # NoPeer
    /\ peer' = NodeState
    /\ node_type' = peer.node_type
    /\ num_packets' = peer.num_packets
    /\ max_num_attempts' = peer.max_num_attempts
    /\ tx_payload_len' = peer.tx_payload_len
    /\ ack_timeout' = peer.ack_timeout
    /\ pc' = peer.pc
    /\ tx_pid' = peer.tx_pid
    /\ tx_header' = peer.tx_header
    /\ num_attempts' = peer.num_attempts
    /\ ack_received' = peer.ack_received
    /\ timer' = peer.timer
    /\ rx' = peer.rx
    /\ rx_pid' = peer.rx_pid
    /\ num_bytes_received' = peer.num_bytes_received
    /\ settled' = peer.settled
    /\ txlog' = peer.txlog
    /\ accepted' = peer.accepted
    /\ bailed' = peer.bailed
    /\ firstPollAcks' = peer.firstPollAcks
    /\ rxcount' = peer.rxcount
    /\ polls' = peer.polls

\* the frames the two processes have transmitted so far
Transmitted ==
    {txlog[i] : i \in DOMAIN txlog} \cup {peer.txlog[i] : i \in DOMAIN peer.txlog}

\* what the channel can hand to a receiver: nothing, a frame one of the two
\* processes has transmitted (lost, late or repeated as it may be; a process
\* hears its own transmissions too), such a frame with its payload flagged
\* invalid, or a frame flagged invalid in the header.  It makes up no valid frame.
Deliverable(f) ==
    f.found =>
        \/ ~f.hv
        \/ \E t \in Transmitted :
              /\ f.h0 = t.h0 /\ f.h1 = t.h1 /\ f.h2 = t.h2
              /\ f.pv => f.len = t.len

PairMasterPoll == peer # NoPeer /\ MasterPoll /\ Deliverable(rx')

PairSlavePoll == peer # NoPeer /\ SlavePoll /\ Deliverable(rx')

\* the role branch is taken once both processes exist
PairRun == peer # NoPeer /\ Start

PairNext ==
    \/ PairStart
    \/ Switch
    \/ PairRun
    \/ MasterFor
    \/ MasterAttempt
    \/ MasterSleep
    \/ MasterTx
    \/ PairMasterPoll
    \/ MasterAfterAwait
    \/ MasterBailCheck
    \/ PairSlavePoll
    \/ SlaveCheck
    \/ SlaveSleep
    \/ SlaveTx
    \/ SlaveWhile

PairSpec == PairInit /\ [][PairNext]_vars

\* A master run with more than 2^16 packets, followed from the last 16-bit id
\* on.  max_num_attempts = 1 is left out: with it the bail check at line 262
\* ends the run at id 0.
WideInit ==
    /\ node_type = PING_NODE_MASTER
    /\ num_packets \in WidePacketCounts
    /\ max_num_attempts \in (0..MaxAttempts) \ {1}
    /\ tx_payload_len = DefaultPayloadLen
    /\ ack_timeout \in AckTimeouts
    /\ pc = "start"
    /\ tx_pid = 0
    /\ tx_header = [h0 |-> 0, h1 |-> 0, h2 |-> 0]
    /\ num_attempts = 0
    /\ ack_received = 0
    /\ timer = 0
    /\ rx = NoFrame
    /\ rx_pid = 0
    /\ num_bytes_received = 0
    /\ settled = FALSE
    /\ txlog = <<>>
    /\ accepted = <<>>
    /\ bailed = FALSE
    /\ firstPollAcks = TRUE
    /\ rxcount = 0
    /\ polls = 0
    /\ peer = NoPeer

\* the for loop has run through ids 0..2^16-2, each acknowledged on its
\* first attempt (or, with max_num_attempts = 0, passed over); txlog and
\* accepted record what happens from here on
WideStart ==
    /\ pc = "start"
    /\ pc' = "m_for"
    /\ tx_pid' = IdModulus - 1
    /\ \E k \in {0, IdModulus - 1} :
          /\ max_num_attempts # 0 => k = IdModulus - 1
          /\ num_bytes_received' = k * tx_payload_len
    /\ UNCHANGED <<polls, peer, config, tx_header, num_attempts, ack_received, timer, rx,
                   rx_pid, settled, txlog, accepted, bailed, firstPollAcks, rxcount>>

WidePoll == MasterPollFrom(WideFrames)

WideNext ==
    \/ WideStart
    \/ MasterFor
    \/ MasterAttempt
    \/ MasterSleep
    \/ MasterTx
    \/ WidePoll
    \/ MasterAfterAwait
    \/ MasterBailCheck

WideSpec == WideInit /\ [][WideNext]_vars

---------------------------------------------------------------------------
(* Vocabulary of the properties *)

IsMaster == node_type = PING_NODE_MASTER
IsSlave == node_type = PING_NODE_SLAVE

\* the 16-bit id a logged or received frame carries
FrameId(f) == f.h0 * 256 + f.h1

\* how often x occurs in seq
Count(seq, x) == Cardinality({i \in DOMAIN seq : seq[i] = x})

Range(seq) == {seq[i] : i \in DOMAIN seq}

\* f is a frame with a valid header, type ACK, a valid payload and id k
ValidAckFor(f, k) ==
    f.found /\ f.hv /\ f.h2 = PING_PACKET_ACK /\ f.pv /\ FrameId(f) = k

\* f is a frame with a valid header, type ACK and a valid payload
ValidAck(f) == f.found /\ f.hv /\ f.h2 = PING_PACKET_ACK /\ f.pv

\* f is a frame with a valid header, type DATA and a valid payload
ValidData(f) == f.found /\ f.hv /\ f.h2 = PING_PACKET_DATA /\ f.pv

\* this step is one poll of the master's await loop
IsMasterPollStep == IsMaster /\ pc = "m_await" /\ timer' # timer

---------------------------------------------------------------------------
\* C1: stop-and-wait.  A DATA frame with id k+1 is transmitted only after an
\* ACK for id k was accepted, for every num_packets and max_num_attempts; the
\* ids transmitted never go back, and the frame sent is the one for tx_pid.
C1_StopAndWait ==
    IsMaster =>
        /\ \A i \in DOMAIN txlog :
              FrameId(txlog[i]) > 0 => FrameId(txlog[i]) - 1 \in Range(accepted)
        /\ \A i \in DOMAIN txlog : \A j \in DOMAIN txlog :
              i <= j => FrameId(txlog[i]) <= FrameId(txlog[j])

\* C2: the run is aborted exactly when the attempts for the current id ran out
\* without an accepted ACK; a run in which every id was acknowledged ends
\* normally, also when an ACK came on attempt number max_num_attempts.
C2_AbortIffExhausted ==
    (IsMaster /\ pc = "done") =>
        /\ bailed <=> (tx_pid < num_packets /\ ack_received = 0)
        /\ Len(accepted) = num_packets => ~bailed

\* C3: the await loop is left as acked only on a frame with a valid header,
\* type ACK, a valid payload and the outstanding id; a poll that returns any
\* other frame (or none) leaves ack_received, tx_pid, num_bytes_received and
\* the accepted ids as they were.
C3_AckOnlyOnMatchingAck ==
    /\ [](IsMaster /\ pc = "m_await" /\ ack_received # 0 => ValidAckFor(rx, tx_pid))
    /\ [][IsMasterPollStep =>
            /\ ack_received' # 0 <=> ValidAckFor(rx', tx_pid)
            /\ ~ValidAckFor(rx', tx_pid) =>
                  /\ ack_received' = 0
                  /\ tx_pid' = tx_pid
                  /\ num_bytes_received' = num_bytes_received
                  /\ accepted' = accepted]_vars

\* a fully valid ACK for another id was polled and the master keeps waiting
C3_Witness ==
    /\ IsMaster /\ pc = "m_await" /\ ack_received = 0
    /\ ValidAck(rx) /\ FrameId(rx) # tx_pid

\* C4: the slave hands a frame to iqpr_txpacket only when the frame it has
\* just processed has a valid header, type DATA and a valid payload, and it
\* sends exactly one ACK per such frame.
C4_AckOnlyForValidData ==
    /\ [](IsSlave /\ pc \in {"s_sleep", "s_tx"} => ValidData(rx))
    /\ [](IsSlave => Len(txlog) = Len(accepted)
                        - (IF pc \in {"s_sleep", "s_tx"} THEN 1 ELSE 0))
    /\ [][IsSlave /\ txlog' # txlog =>
            /\ ValidData(rx) /\ rx' = rx
            /\ Len(txlog') = Len(txlog) + 1
            /\ Len(txlog') = Len(accepted)]_vars

\* the slave has sent an ACK and has also discarded a frame
C4_Witness ==
    IsSlave /\ Len(txlog) = 1 /\ rxcount = 2 /\ pc = "s_while" /\ ~ValidData(rx)

\* C5: the ACK sent for an accepted DATA frame with id i carries both id bytes
\* of that frame, type ACK and 10 payload bytes, and a master with outstanding
\* id i accepts it when it is delivered valid.
C5_AckRoundTrip ==
    (IsSlave /\ pc = "s_while" /\ ValidData(rx)) =>
        /\ Len(txlog) > 0
        /\ LET a == txlog[Len(txlog)]
               i == FrameId(rx)
           IN  /\ a.h0 = rx.h0 /\ a.h1 = rx.h1
               /\ a.h2 = PING_PACKET_ACK
               /\ a.len = 10
               /\ MasterClassify([found |-> TRUE, hv |-> TRUE, h0 |-> a.h0,
                                  h1 |-> a.h1, h2 |-> a.h2, pv |-> TRUE,
                                  len |-> a.len], i) = "Accepted"

\* an ACK for an id that needs both header bytes has been sent
C5_Witness ==
    /\ IsSlave /\ pc = "s_while" /\ ValidData(rx)
    /\ rx.h0 = 255 /\ rx.h1 = 1 /\ Len(txlog) > 0

\* C6: a run that ends without bailing has accepted the ACKs for exactly
\* 0, 1, .., num_packets-1 in this order, and every DATA frame on the air
\* carries the id outstanding when it was sent.
C6_AcceptedInOrder ==
    IsMaster =>
        /\ (pc = "done" /\ ~bailed) =>
              accepted = [i \in 1..num_packets |-> i - 1]
        /\ pc = "m_await" =>
              /\ Len(txlog) > 0
              /\ FrameId(txlog[Len(txlog)]) = tx_pid
              /\ txlog[Len(txlog)].h2 = PING_PACKET_DATA

C8_SingleAttemptAbort ==
    (IsMaster /\ max_num_attempts = 1 /\ num_packets >= 1 /\ accepted = <<>>) =>
        /\ num_bytes_received = 0
        /\ Len(txlog) <= 1
        /\ pc = "done" =>
              /\ bailed
              /\ Len(txlog) = 1
              /\ FrameId(txlog[1]) = 0 /\ txlog[1].h2 = PING_PACKET_DATA

\* the run with one attempt has ended without an ACK
C8_Witness ==
    /\ IsMaster /\ max_num_attempts = 1 /\ num_packets >= 1
    /\ accepted = <<>> /\ pc = "done" /\ bailed /\ Len(txlog) = 1

\* C9: scenario A.  With num_packets = 3, the default max_num_attempts and the
\* matching valid ACK returned by every poll, the run sends ids 0, 1, 2 once
\* each, does not bail and counts 3 * tx_payload_len bytes.
C9_ScenarioA ==
    (/\ IsMaster /\ num_packets = 3 /\ max_num_attempts = DefaultMaxAttempts
     /\ firstPollAcks /\ pc = "done") =>
        /\ Len(txlog) = 3
        /\ \A i \in 1..3 :
              FrameId(txlog[i]) = i - 1 /\ txlog[i].h2 = PING_PACKET_DATA
        /\ accepted = <<0, 1, 2>>
        /\ ~bailed
        /\ num_bytes_received = 3 * tx_payload_len

\* scenario A has run to its end with the default payload length
C9_Witness ==
    /\ IsMaster /\ num_packets = 3 /\ max_num_attempts = DefaultMaxAttempts
    /\ tx_payload_len = DefaultPayloadLen
    /\ firstPollAcks /\ pc = "done" /\ num_bytes_received = 600

\* C10: num_bytes_received is tx_payload_len times the number of ids whose ACK
\* was accepted, it never decreases, and an attempt that timed out adds
\* nothing.  Scenario B: when packet 0 is acknowledged on its second attempt
\* it was transmitted twice and its payload is counted once.
C10_ByteAccounting ==
    /\ [](IsMaster =>
            num_bytes_received = tx_payload_len * Cardinality(Range(accepted)))
    /\ [](IsMaster /\ tx_pid = 0 /\ num_attempts = 2 /\ ack_received # 0
            /\ pc = "m_bailcheck" =>
              /\ Len(txlog) = 2
              /\ FrameId(txlog[1]) = 0 /\ FrameId(txlog[2]) = 0
              /\ num_bytes_received = tx_payload_len)
    /\ [][IsMaster =>
            /\ num_bytes_received' >= num_bytes_received
            /\ (pc = "m_await" /\ pc' # "m_await" /\ ack_received = 0) =>
                  num_bytes_received' = num_bytes_received]_vars

\* scenario B: packet 0 timed out once and was acknowledged on attempt 2
C10_Witness ==
    /\ IsMaster /\ tx_pid = 0 /\ num_attempts = 2 /\ ack_received # 0
    /\ pc = "m_bailcheck" /\ num_bytes_received = tx_payload_len
    /\ tx_payload_len = DefaultPayloadLen

---------------------------------------------------------------------------
\* f has a valid header and type DATA but an invalid payload
PayloadErrorFrame(f) == f.found /\ f.hv /\ f.h2 = PING_PACKET_DATA /\ ~f.pv

\* f has an invalid header, or a valid header and a type other than DATA
DiscardedFrame(f) == f.found /\ (~f.hv \/ f.h2 # PING_PACKET_DATA)

\* C11: scenario C.  After a DATA frame with a valid header and an invalid
\* payload, whatever id it carries, the slave sends no ACK, counts no bytes
\* and does not terminate: it polls again.
C11_PayloadErrorContinues ==
    (IsSlave /\ PayloadErrorFrame(rx)) =>
        /\ pc \in {"s_check", "s_while", "s_poll"}
        /\ Len(txlog) = Len(accepted)
        /\ num_bytes_received = DefaultPayloadLen * Len(accepted)

\* C12: after a frame with an invalid header, or with a type other than DATA,
\* the slave sends no ACK, keeps num_bytes_received and rx_pid and does not
\* terminate, for every num_packets and also when it is the first frame.
C12_DiscardContinues ==
    (IsSlave /\ DiscardedFrame(rx)) =>
        /\ pc \in {"s_check", "s_while", "s_poll"}
        /\ Len(txlog) = Len(accepted)
        /\ rxcount = 1 => (rx_pid = 0 /\ num_bytes_received = 0 /\ txlog = <<>>)

\* C13: on an accepted DATA frame with id i the slave first adds the payload
\* length, then waits the settle delay, then sends one ACK for id i, and only
\* then tests the id: it terminates when i = num_packets-1 and polls again
\* otherwise.  A terminated slave whose last frame was accepted has sent the
\* ACK for the final id.
C13_AcceptPathOrder ==
    /\ [][(IsSlave /\ pc = "s_check" /\ ValidData(rx)) =>
            /\ num_bytes_received' = num_bytes_received + rx.len
            /\ txlog' = txlog /\ ~settled'
            /\ pc' = "s_sleep"]_vars
    /\ [][(IsSlave /\ pc = "s_sleep") =>
            /\ settled' /\ txlog' = txlog
            /\ num_bytes_received' = num_bytes_received
            /\ pc' = "s_tx"]_vars
    /\ [][(IsSlave /\ pc = "s_tx") =>
            /\ txlog' = Append(txlog, [h0 |-> rx.h0, h1 |-> rx.h1,
                                       h2 |-> PING_PACKET_ACK, len |-> 10])
            /\ pc' = "s_while"]_vars
    /\ [][(IsSlave /\ pc = "s_while" /\ ValidData(rx)) =>
            /\ Len(txlog) = Len(accepted)
            /\ FrameId(txlog[Len(txlog)]) = FrameId(rx)
            /\ pc' = IF FrameId(rx) = num_packets - 1 THEN "done" ELSE "s_poll"]_vars
    /\ []((IsSlave /\ pc = "done" /\ ValidData(rx)) =>
            /\ Len(txlog) > 0
            /\ FrameId(txlog[Len(txlog)]) = num_packets - 1
            /\ txlog[Len(txlog)].h2 = PING_PACKET_ACK)

\* the slave accepted another id, went on, accepted the final id and terminated
C13_Witness ==
    /\ IsSlave /\ pc = "done" /\ ValidData(rx)
    /\ Len(txlog) = 2 /\ FrameId(txlog[1]) # num_packets - 1
    /\ FrameId(txlog[2]) = num_packets - 1

\* the ids of the frames in log
LogIds(log) == [i \in DOMAIN log |-> FrameId(log[i])]

\* C14: no packet id is transmitted more than max_num_attempts times, for
\* every max_num_attempts (0 and 1 included); num_attempts counts the
\* transmissions of the current id only and is at most max_num_attempts when
\* a frame is transmitted.
C14_AttemptBudget ==
    IsMaster =>
        /\ \A k \in Range(LogIds(txlog)) :
              Count(LogIds(txlog), k) <= max_num_attempts
        /\ pc \in {"m_sleep", "m_tx"} => num_attempts <= max_num_attempts
        /\ pc \in {"m_attempt", "m_sleep", "m_tx", "m_await"} =>
              num_attempts = Count(LogIds(txlog), tx_pid)
                               + (IF pc \in {"m_sleep", "m_tx"} THEN 1 ELSE 0)

\* the least number of quanta that cover timeout
PollLimit(timeout, quantum) == (timeout + quantum - 1) \div quantum

\* C15: an attempt makes at most ceil(ack_timeout / timespec) polls (240 with
\* the source's values); every poll adds timespec to timer, whatever it
\* returns; polls are made only while no ACK is accepted and timer is below
\* ack_timeout; the await loop is left without an ACK exactly when timer has
\* reached ack_timeout, after the full number of polls.
C15_TimeoutByPolls ==
    /\ PollLimit(DefaultAckTimeout, timespec) = 240
    /\ [](IsMaster =>
            /\ timer = polls * timespec
            /\ polls <= PollLimit(ack_timeout, timespec))
    /\ [][IsMasterPollStep =>
            /\ ack_received = 0 /\ timer < ack_timeout
            /\ timer' = timer + timespec
            /\ polls' = polls + 1]_vars
    /\ [][(IsMaster /\ pc = "m_await" /\ pc' # "m_await") =>
            /\ ack_received # 0 \/ timer >= ack_timeout
            /\ ack_received = 0 =>
                  /\ polls = PollLimit(ack_timeout, timespec)
                  /\ timer - timespec < ack_timeout]_vars

\* an attempt timed out on an ignored frame, with a timeout that is no
\* multiple of the quantum
C15_Witness ==
    /\ IsMaster /\ pc = "m_await" /\ ack_received = 0
    /\ ack_timeout % timespec # 0 /\ timer >= ack_timeout
    /\ polls = 2 /\ ValidAck(rx) /\ FrameId(rx) # tx_pid

\* C16: every master run ends, whatever the radio returns, and it ends either
\* because all ids were gone through or by bailing.  The slave has no timeout:
\* a poll that returns nothing leaves it polling, and it terminates only
\* from its terminal test with rx_pid = num_packets-1.
C16_MasterTerminates ==
    /\ IsMaster => <>(pc = "done")
    /\ []((IsMaster /\ pc = "done") =>
            (bailed /\ tx_pid < num_packets) \/ (~bailed /\ tx_pid = num_packets))
    /\ [][(IsMaster /\ pc # "done" /\ pc' = "done") =>
            pc \in {"m_for", "m_bailcheck"}]_vars
    /\ [][(IsSlave /\ pc = "s_poll" /\ ~rx'.found) => pc' = "s_poll"]_vars
    /\ [][(IsSlave /\ pc # "done" /\ pc' = "done") =>
            pc = "s_while" /\ rx_pid = num_packets - 1]_vars

\* a master run has ended by bailing after it got nothing but corrupt frames
C16_Witness ==
    /\ IsMaster /\ pc = "done" /\ bailed /\ max_num_attempts = 2
    /\ Len(txlog) = 2 /\ rx.found /\ ~rx.hv /\ accepted = <<>>

\* C17: every transmission of either role (a first or retried DATA attempt,
\* an ACK) is made in a state the settle delay has just produced and uses that
\* delay up, so no two transmissions share a delay; after the delay the only
\* step the program takes is the transmission, so no poll comes in between.
C17_SettleBeforeTx ==
    /\ [][(txlog' # txlog) =>
            /\ settled /\ ~settled'
            /\ Len(txlog') = Len(txlog) + 1]_vars
    /\ [][(settled' /\ ~settled) =>
            /\ pc \in {"m_sleep", "s_sleep"}
            /\ txlog' = txlog /\ rx' = rx /\ rxcount' = rxcount /\ polls' = polls]_vars
    /\ [][settled => (Len(txlog') = Len(txlog) + 1 /\ rx' = rx)]_vars
    /\ [](settled => pc \in {"m_tx", "s_tx"})

\* a retried DATA attempt waiting to be transmitted after its settle delay
C17_Witness ==
    /\ IsMaster /\ pc = "m_tx" /\ settled
    /\ num_attempts = 2 /\ Len(txlog) = 1

\* C19: the slave answers every accepted DATA frame, a repetition of an id it
\* has accepted before included, with an ACK for that id and counts its
\* payload again: the byte count is the sum of the payload lengths of all
\* accepted frames (one length per frame, not per distinct id), the ACKs sent
\* are the accepted ids in order, and the byte count never decreases.
C19_SlaveDuplicates ==
    /\ [](IsSlave =>
            /\ num_bytes_received = RxLen(PING_PACKET_DATA) * Len(accepted)
            /\ Len(txlog) <= Len(accepted)
            /\ Len(accepted) <= Len(txlog) + 1
            /\ \A i \in DOMAIN txlog :
                    /\ FrameId(txlog[i]) = accepted[i]
                    /\ txlog[i].h2 = PING_PACKET_ACK
            /\ (pc \in {"s_poll", "s_while", "done"}) => Len(txlog) = Len(accepted))
    /\ [][(IsSlave /\ pc = "s_check" /\ ValidData(rx)) =>
            /\ accepted' = Append(accepted, FrameId(rx))
            /\ num_bytes_received' = num_bytes_received + rx.len]_vars
    /\ [][IsSlave => num_bytes_received' >= num_bytes_received]_vars

\* the same id accepted, counted and acknowledged twice
C19_Witness ==
    /\ IsSlave /\ Len(accepted) = 2 /\ accepted[1] = accepted[2]
    /\ Len(txlog) = 2 /\ FrameId(txlog[1]) = FrameId(txlog[2])
    /\ num_bytes_received = 2 * DefaultPayloadLen

\* C20: the DATA header holds the low 16 bits of tx_pid, high byte first, and
\* decoding them gives tx_pid back while tx_pid < 2^16; from tx_pid = 2^16 on
\* no ACK is accepted, so a run with num_packets > 2^16 never completes
\* normally: it ends in the abort, and when it has come to id 2^16 it aborts
\* there with num_attempts = max_num_attempts.
C20_IdWidth ==
    /\ []((pc \in {"m_attempt", "m_sleep", "m_tx", "m_await", "m_bailcheck"}) =>
            /\ tx_header.h0 = (tx_pid % IdModulus) \div 256
            /\ tx_header.h1 = tx_pid % 256
            /\ DecodePid(tx_header.h0, tx_header.h1) = tx_pid % IdModulus
            /\ tx_pid < IdModulus => DecodePid(tx_header.h0, tx_header.h1) = tx_pid)
    /\ []((tx_pid >= IdModulus) =>
            /\ tx_pid \notin Range(accepted)
            /\ pc # "m_for" => ack_received = 0)
    /\ []((num_packets > IdModulus /\ pc = "done") =>
            /\ bailed
            /\ tx_pid <= IdModulus
            /\ tx_pid = IdModulus => num_attempts = max_num_attempts)

\* the master and the slave of a two-process run, whichever is taking steps
MasterView == IF node_type = PING_NODE_MASTER THEN NodeState ELSE peer
SlaveView == IF node_type = PING_NODE_SLAVE THEN NodeState ELSE peer

\* C18: one master and one slave with the same num_packets on a channel that
\* loses, delays, repeats and corrupts frames but makes up no valid frame: when
\* the master has terminated normally, the slave has accepted a DATA frame
\* for every id 0..num_packets-1, an id for the first time only after every
\* smaller id, and is at or past its final-id test with the final id decoded.
C18_EndToEnd ==
    (peer # NoPeer /\ MasterView.pc = "done" /\ ~MasterView.bailed) =>
        /\ \A k \in 0..(MasterView.num_packets - 1) : k \in Range(SlaveView.accepted)
        /\ \A i \in DOMAIN SlaveView.accepted :
              \A k \in 0..(SlaveView.accepted[i] - 1) :
                  \E j \in 1..(i - 1) : SlaveView.accepted[j] = k
        /\ SlaveView.pc \in {"s_while", "done"}
        /\ SlaveView.rx_pid = SlaveView.num_packets - 1

=============================================================================
